---------------------------- MODULE Spec2Model ----------------------------
(***************************************************************************)
(* SiliconRiver: the ingestion pipeline (Hugging Face and OpenRouter sync  *)
(* drivers, the upsert engine) over the PostgreSQL tables models,          *)
(* model_tags, sync_log and providers.                                     *)
(*                                                                         *)
(* Text is a sequence of one-character strings, so that split, strip,      *)
(* lower and slicing are computed as the code computes them.  An optional  *)
(* value is None ({}) or Some(v) ({v}).  A table is a function from        *)
(* the key column to the sequence of rows holding that key: the UNIQUE     *)
(* constraint is what keeps each sequence at length <= 1, it is not built  *)
(* into the representation.  The BIGSERIAL id columns are not modelled.    *)
(***************************************************************************)
EXTENDS Integers, Sequences, FiniteSets, TLC

VARIABLES
    models,      \* committed rows of table models, by model_id
    model_tags,  \* committed rows of table model_tags, by model_id
    sync_log,    \* committed rows of table sync_log, in insertion order
    providers,   \* committed rows of table providers, by provider_id
    clock,       \* the wall clock (datetime.now), in seconds
    hf,          \* the Hugging Face driver: its position and locals
    hfTx,        \* the Hugging Face driver's open transaction
    orr,         \* the OpenRouter driver: its position and locals
    env,         \* the process environment: PROVIDERS, PROVIDERS_OPENROUTER
    schema,      \* the relations and indexes that exist in the database
    api          \* the Query API: the last request served and its response

vars == <<models, model_tags, sync_log, providers, clock, hf, hfTx, orr, env, schema, api>>

-----------------------------------------------------------------------------
(* Bounds of the model *)

\* Clock ticks: one per provider run (HF) and per catalog fetch (OpenRouter).
MaxClock == 3
\* Records one Hugging Face listing yields at most.
MaxBatch == 3
\* Items one OpenRouter catalog response holds at most.
MaxOrItems == 2
\* Clock ticks up to which a second driver may start beside a running one.
MaxOverlapClock == 2
\* Clock ticks of the runs under the configurations of SpecConfig.
MaxConfigClock == 2
\* A second of the day no clock of the model reaches.
AheadOfClock == 86405
\* Clock ticks of the sync runs between avatar requests (SpecAvatar).
MaxAvatarClock == 2

-----------------------------------------------------------------------------
(* Values *)

None == {}
Some(v) == {v}
TheValue(o) == CHOOSE v \in o : TRUE
Coalesce(new, old) == IF new # None THEN new ELSE old

Min(a, b) == IF a < b THEN a ELSE b

\* s[:n]
Truncate(s, n) == SubSeq(s, 1, Min(Len(s), n))

IsSpace(c) == c = " "

RECURSIVE LStrip(_)
LStrip(s) == IF s # <<>> /\ IsSpace(Head(s)) THEN LStrip(Tail(s)) ELSE s

RECURSIVE RStrip(_)
RStrip(s) ==
    IF s # <<>> /\ IsSpace(s[Len(s)]) THEN RStrip(SubSeq(s, 1, Len(s) - 1)) ELSE s

\* str.strip()
Strip(s) == LStrip(RStrip(s))

LowerChar(c) ==
    CASE c = "M" -> "m"
      [] c = "G" -> "g"
      [] c = "A" -> "a"
      [] c = "B" -> "b"
      [] c = "C" -> "c"
      [] c = "E" -> "e"
      [] c = "F" -> "f"
      [] c = "O" -> "o"
      [] c = "R" -> "r"
      [] OTHER -> c

\* str.lower()
Lower(s) == [i \in 1..Len(s) |-> LowerChar(s[i])]

Contains(s, c) == \E i \in 1..Len(s) : s[i] = c

FirstIndex(s, c) == CHOOSE i \in 1..Len(s) : s[i] = c /\ \A j \in 1..(i - 1) : s[j] # c

LastIndex(s, c) == CHOOSE i \in 1..Len(s) : s[i] = c /\ \A j \in (i + 1)..Len(s) : s[j] # c

\* s.split(c, 1)[0]
BeforeFirst(s, c) == IF Contains(s, c) THEN SubSeq(s, 1, FirstIndex(s, c) - 1) ELSE s

\* s.split(c)[-1]
AfterLast(s, c) == IF Contains(s, c) THEN SubSeq(s, LastIndex(s, c) + 1, Len(s)) ELSE s

\* An instant is [day, sec]; strftime("%Y-%m-%d %H:%M:%S") and isoformat() give
\* fixed-width text that differs in the separator between date and time.  The
\* text is kept as <<date, separator, time>>, which compares as the text does.
Instant(t) == [day |-> t \div 86400, sec |-> t % 86400]

TIMESTAMP_FORMAT_SEP == " "

FormatTimestampOf(inst) == <<inst.day, TIMESTAMP_FORMAT_SEP, inst.sec>>

IsoFormat(inst) == <<inst.day, "T", inst.sec>>

\* A bytes value: its length and what tells it from other values of that length.
Bytes(len, data) == [len |-> len, data |-> data]

\* "if blob:" for optional bytes: None and b"" are both falsy.
BytesTruthy(o) == o # None /\ TheValue(o).len > 0

\* json.dumps of a string (ensure_ascii=False): quoted, the quote and the
\* backslash escaped.
RECURSIVE JsonEscape(_)
JsonEscape(s) ==
    IF s = <<>> THEN <<>>
    ELSE (IF Head(s) \in {"\"", "\\"} THEN <<"\\", Head(s)>> ELSE <<Head(s)>>)
            \o JsonEscape(Tail(s))

JsonDumpsString(s) == <<"\"">> \o JsonEscape(s) \o <<"\"">>

\* json.dumps of a list of strings: "[", the items joined by ", ", "]".
RECURSIVE JsonItems(_)
JsonItems(xs) ==
    IF xs = <<>> THEN <<>>
    ELSE IF Len(xs) = 1 THEN JsonDumpsString(xs[1])
    ELSE JsonDumpsString(xs[1]) \o <<",", " ">> \o JsonItems(Tail(xs))

JsonDumpsList(xs) == <<"[">> \o JsonItems(xs) \o <<"]">>

\* json.loads of the text of an array of strings.  A result is
\* [ok, value, rest]; ok = FALSE is JSONDecodeError.
JsonFail == [ok |-> FALSE, value |-> <<>>, rest |-> <<>>]

\* The characters of a string after its opening quote, up to the closing one.
RECURSIVE JsonStringBody(_, _)
JsonStringBody(s, acc) ==
    IF s = <<>> THEN JsonFail
    ELSE IF Head(s) = "\"" THEN [ok |-> TRUE, value |-> acc, rest |-> Tail(s)]
    ELSE IF Head(s) = "\\"
         THEN IF Len(s) >= 2 /\ s[2] \in {"\"", "\\", "/"}
              THEN JsonStringBody(Tail(Tail(s)), Append(acc, s[2]))
              ELSE JsonFail
    ELSE JsonStringBody(Tail(s), Append(acc, Head(s)))

\* The elements of an array after "[" or ",": a string, then "," or "]".
RECURSIVE JsonElements(_, _)
JsonElements(s, acc) ==
    LET t == LStrip(s)
        str == JsonStringBody(Tail(t), <<>>)
        after == LStrip(str.rest)
    IN  IF t = <<>> \/ Head(t) # "\"" THEN JsonFail
        ELSE IF ~str.ok \/ after = <<>> THEN JsonFail
        ELSE IF Head(after) = "]"
             THEN [ok |-> Strip(Tail(after)) = <<>>,
                   value |-> Append(acc, str.value), rest |-> <<>>]
        ELSE IF Head(after) = ","
             THEN JsonElements(Tail(after), Append(acc, str.value))
        ELSE JsonFail

JsonLoadsList(s) ==
    LET t == LStrip(s)
        inner == LStrip(Tail(t))
    IN  IF t = <<>> \/ Head(t) # "[" THEN JsonFail
        ELSE IF inner # <<>> /\ Head(inner) = "]"
             THEN [ok |-> Strip(Tail(inner)) = <<>>, value |-> <<>>, rest |-> <<>>]
        ELSE JsonElements(inner, <<>>)

\* json.dumps of a pricing dict (kept whole: the dict is never looked into).
JsonDumpsDict(d) == <<"{", d, "}">>

-----------------------------------------------------------------------------
(* The upstream data the drivers can meet *)

\* Hugging Face ModelInfo objects (the attributes to_record reads).
HfInfo(id, summary, desc, tags, created, modified, private) ==
    [modelId |-> id, cardData |-> [summary |-> summary, description |-> None],
     description |-> desc, tags |-> tags, created_at |-> created,
     lastModified |-> modified, downloads |-> Some(123), likes |-> Some(45),
     private |-> private]

IdMA == <<"m", "/", "a">>
IdMB == <<"m", "/", "b">>
IdGC == <<"g", "/", "c">>

\* A model of an author whose name is written with a capital letter.
IdUA == <<"M", "/", "a">>

ModelIds == {IdMA, IdMB, IdGC, IdUA}

\* A tag is a text; one tag holds a quote, one list repeats a tag.  The
\* timestamps are upstream's: one of them is ahead of the local clock.
HfInfos ==
    { HfInfo(IdMA, Some(<<"o", "n", "e">>), Some(<<"o", "n", "e">>),
             << <<"a">>, <<"b">> >>, Some(Instant(0)), Some(Instant(0)), None),
      HfInfo(IdMB, Some(<<"t", "w", "o">>), Some(<<"t", "w", "o">>),
             << <<"a", "\"">> >>, None, Some(Instant(AheadOfClock)), Some(FALSE)),
      HfInfo(IdMA, None, None, <<>>, None, None, Some(TRUE)),
      HfInfo(IdGC, None, Some(<<"c", "e", "e">>), << <<"a">>, <<"a">> >>,
             Some(Instant(1)), Some(Instant(1)), None),
      HfInfo(IdUA, Some(<<"o", "n", "e">>), None, <<>>, Some(Instant(0)),
             Some(Instant(0)), None) }

\* client.list_models(author=provider, ...): the models of that author.
HfListing(provider) == {i \in HfInfos : BeforeFirst(i.modelId, "/") = provider}

\* OpenRouter catalog items (the keys to_record reads).
OrItem(id, name, desc, created, pricing) ==
    [id |-> id, name |-> name, description |-> desc, created |-> created,
     pricing |-> pricing]

OrItems ==
    { OrItem(Some(IdMA), Some(<<"M", ":", " ", "a">>), Some(<<"o", "r">>), Some(1),
             Some("p1")),
      OrItem(Some(IdMA), Some(<<"M", ":", " ", "a">>), None, None, None),
      OrItem(Some(IdGC), Some(<<"G", ":", " ", "c">>), Some(<<"o", "r">>), Some(0),
             Some("p2")) }

\* PROVIDERS and PROVIDERS_OPENROUTER as configured.
EnvProviders == <<"m", ",", " ", "g">>
EnvProvidersOpenRouter == <<"M">>

Environment == [PROVIDERS |-> Some(EnvProviders),
                PROVIDERS_OPENROUTER |-> Some(EnvProvidersOpenRouter)]

ProviderIds == {<<"m">>, <<"g">>, <<"M">>}

-----------------------------------------------------------------------------
(* Source adapters: raw upstream items to ModelRecord *)

\* x or y, for optional text: None and "" are both falsy.
Truthy(o) == o # None /\ TheValue(o) # <<>>
OrElse(o, other) == IF Truthy(o) THEN o ELSE other
TextOf(o) == IF Truthy(o) THEN TheValue(o) ELSE <<>>

\* raw.split(","), each part stripped, empty parts dropped.
RECURSIVE SplitStripped(_)
SplitStripped(raw) ==
    IF raw = <<>> THEN <<>>
    ELSE LET part == Strip(BeforeFirst(raw, ","))
             rest == IF Contains(raw, ",")
                     THEN SubSeq(raw, FirstIndex(raw, ",") + 1, Len(raw))
                     ELSE <<>>
         IN  (IF part # <<>> THEN <<part>> ELSE <<>>) \o SplitStripped(rest)

\* fetch_models.get_providers: [] for an unset or empty value.
get_providers(raw) == IF Truthy(raw) THEN SplitStripped(TheValue(raw)) ELSE <<>>

\* fetch_models_openrouter.get_providers
or_get_providers(raw) ==
    LET parts == IF Truthy(raw) THEN SplitStripped(TheValue(raw)) ELSE <<>>
    IN  [i \in 1..Len(parts) |-> Lower(parts[i])]

Now == Instant(clock)

\* format_timestamp(value): the value, or the current time when it is None.
format_timestamp(value) ==
    FormatTimestampOf(IF value = None THEN Now ELSE TheValue(value))

HF_DESCRIPTION_MAX == 300
OR_DESCRIPTION_MAX == 5000

\* fetch_models.to_record
to_record(provider, info) ==
    LET card == OrElse(info.cardData.summary, info.cardData.description)
        description == IF ~Truthy(card) /\ Truthy(info.description)
                       THEN TheValue(info.description)
                       ELSE TextOf(card)
    IN  [model_id |-> info.modelId,
         provider |-> provider,
         model_name |-> AfterLast(info.modelId, "/"),
         description |-> Truncate(description, HF_DESCRIPTION_MAX),
         tags |-> info.tags,
         created_at |-> format_timestamp(
                            IF info.created_at # None THEN info.created_at
                            ELSE info.lastModified),
         downloads |-> info.downloads,
         likes |-> info.likes,
         model_card_url |-> <<"https://huggingface.co/">> \o info.modelId,
         inserted_at |-> FormatTimestampOf(Now),
         is_open_source |-> IF info.private = None THEN None
                            ELSE Some(~TheValue(info.private)),
         price |-> None,
         opencompass_rank |-> None,
         huggingface_rank |-> None]

Unknown == <<"u", "n", "k", "n", "o", "w", "n">>

\* extract_provider(name, model_id), on text ("" for a missing value).
extract_provider(name, model_id) ==
    LET fromId == Lower(Strip(BeforeFirst(model_id, "/")))
    IN  IF name = <<>>
        THEN IF model_id # <<>> /\ Contains(model_id, "/")
             THEN (IF fromId # <<>> THEN fromId ELSE Unknown)
             ELSE Unknown
        ELSE IF Strip(BeforeFirst(name, ":")) # <<>>
             THEN Lower(Strip(BeforeFirst(name, ":")))
        ELSE IF Strip(name) # <<>>
             THEN Lower(Strip(name))
        ELSE IF model_id # <<>> /\ Contains(model_id, "/")
             THEN fromId
        ELSE Unknown

\* urllib.parse.quote(s, safe=""), for the characters that occur.
QuoteChar(c) ==
    CASE c = "/" -> <<"%", "2", "F">>
      [] c = ":" -> <<"%", "3", "A">>
      [] c = " " -> <<"%", "2", "0">>
      [] OTHER -> <<c>>

RECURSIVE Quote(_)
Quote(s) == IF s = <<>> THEN <<>> ELSE QuoteChar(Head(s)) \o Quote(Tail(s))

\* needle in haystack
HasSubstring(haystack, needle) ==
    \E i \in 1..(Len(haystack) - Len(needle) + 1) :
        SubSeq(haystack, i, i + Len(needle) - 1) = needle

\* normalise_timestamp(epoch_seconds)
normalise_timestamp(epoch) ==
    FormatTimestampOf(IF epoch = None THEN Now ELSE Instant(TheValue(epoch)))

\* fetch_models_openrouter.to_record
or_to_record(raw) ==
    LET model_id == TextOf(raw.id)
        name == IF Truthy(raw.name) THEN TheValue(raw.name) ELSE model_id
        provider == extract_provider(name, model_id)
        encoded_id == Quote(IF model_id # <<>> THEN model_id ELSE name)
    IN  [model_id |-> IF model_id # <<>> THEN model_id ELSE encoded_id,
         provider |-> IF provider # <<>> THEN provider ELSE Unknown,
         model_name |-> name,
         description |-> Truncate(TextOf(raw.description), OR_DESCRIPTION_MAX),
         created_at |-> normalise_timestamp(raw.created),
         model_card_url |-> <<"https://openrouter.ai/models/">> \o encoded_id,
         inserted_at |-> FormatTimestampOf(Now),
         price |-> raw.pricing,
         is_open_source |->
             model_id # <<>> /\ HasSubstring(Lower(model_id), <<":", "f", "r", "e", "e">>),
         opencompass_rank |-> None,
         huggingface_rank |-> None]

-----------------------------------------------------------------------------
(* The SQL statements *)

EmptyMap == [x \in {} |-> x]
Put(f, k, v) == [x \in (DOMAIN f) \cup {k} |-> IF x = k THEN v ELSE f[x]]

\* VALUES (...) of the Hugging Face INSERT INTO models
HfExcluded(record) ==
    [model_id |-> record.model_id,
     provider |-> record.provider,
     model_name |-> record.model_name,
     description |-> record.description,
     tags |-> JsonDumpsList(record.tags),
     created_at |-> record.created_at,
     downloads |-> record.downloads,
     likes |-> record.likes,
     model_card_url |-> record.model_card_url,
     inserted_at |-> record.inserted_at,
     is_open_source |-> record.is_open_source,
     price |-> IF record.price # None
               THEN Some(JsonDumpsDict(TheValue(record.price))) ELSE None,
     opencompass_rank |-> record.opencompass_rank,
     huggingface_rank |-> record.huggingface_rank]

\* VALUES (...) of the OpenRouter INSERT INTO models
OrExcluded(provider, record) ==
    [model_id |-> record.model_id,
     provider |-> provider,
     model_name |-> record.model_name,
     description |-> record.description,
     tags |-> JsonDumpsList(<<>>),
     created_at |-> record.created_at,
     downloads |-> None,
     likes |-> None,
     model_card_url |-> record.model_card_url,
     inserted_at |-> record.inserted_at,
     is_open_source |-> Some(record.is_open_source),
     price |-> IF record.price # None
               THEN Some(JsonDumpsDict(TheValue(record.price))) ELSE None,
     opencompass_rank |-> record.opencompass_rank,
     huggingface_rank |-> record.huggingface_rank]

\* The SET list with price = EXCLUDED.price.
HfOnConflict_PriceOverwritten(old, excluded) ==
    [excluded EXCEPT
        !.opencompass_rank = Coalesce(excluded.opencompass_rank, old.opencompass_rank),
        !.huggingface_rank = Coalesce(excluded.huggingface_rank, old.huggingface_rank)]

\* The SET list with description = COALESCE(NULLIF(EXCLUDED.description, ''), ...).
HfOnConflict_DescriptionKept(old, excluded) ==
    [excluded EXCEPT
        !.description = IF excluded.description # <<>> THEN excluded.description
                        ELSE old.description,
        !.price = Coalesce(excluded.price, old.price),
        !.opencompass_rank = Coalesce(excluded.opencompass_rank, old.opencompass_rank),
        !.huggingface_rank = Coalesce(excluded.huggingface_rank, old.huggingface_rank)]

\* ON CONFLICT (model_id) DO UPDATE SET ... of the Hugging Face path
HfOnConflict(old, excluded) ==
    [excluded EXCEPT
        !.price = Coalesce(excluded.price, old.price),
        !.opencompass_rank = Coalesce(excluded.opencompass_rank, old.opencompass_rank),
        !.huggingface_rank = Coalesce(excluded.huggingface_rank, old.huggingface_rank)]

\* ON CONFLICT (model_id) DO UPDATE SET ... of the OpenRouter path: downloads
\* and likes are not in the SET list.
OrOnConflict(old, excluded) ==
    [excluded EXCEPT
        !.downloads = old.downloads,
        !.likes = old.likes,
        !.price = Coalesce(excluded.price, old.price),
        !.opencompass_rank = Coalesce(excluded.opencompass_rank, old.opencompass_rank),
        !.huggingface_rank = Coalesce(excluded.huggingface_rank, old.huggingface_rank)]

\* No unique index on model_id: an insert never conflicts.
UniqueModelId_Missing(rows) == FALSE

\* UNIQUE (model_id): the insert conflicts when a row with the key is there.
UniqueModelId(rows) == Len(rows) > 0

\* INSERT ... ON CONFLICT (model_id) DO UPDATE, on the rows holding the key.
HfUpsert(rows, excluded) ==
    IF UniqueModelId(rows)
    THEN [i \in 1..Len(rows) |-> HfOnConflict(rows[i], excluded)]
    ELSE Append(rows, excluded)

OrUpsert(rows, excluded) ==
    IF UniqueModelId(rows)
    THEN [i \in 1..Len(rows) |-> OrOnConflict(rows[i], excluded)]
    ELSE Append(rows, excluded)

\* cursor.rowcount after INSERT ... ON CONFLICT DO UPDATE: PostgreSQL counts the
\* row whether it was inserted or updated.
Rowcount(rows) == 1

\* processed += 1
CountProcessed_Assigned(processed) == IF processed = 0 THEN 1 ELSE processed
CountProcessed(processed) == processed + 1

\* if inserted_row: inserted += 1
CountInserted(inserted, rowcount) == IF rowcount # 0 THEN inserted + 1 ELSE inserted

\* INSERT INTO model_tags ... ON CONFLICT (model_id, tag) DO UPDATE SET
\* inserted_at, run by executemany for the tags in order.
RECURSIVE InsertTags(_, _, _)
InsertTags(rows, tags, inserted_at) ==
    IF tags = <<>> THEN rows
    ELSE LET tag == Head(tags)
             kept == IF \E r \in rows : r.tag = tag
                     THEN {r \in rows : r.tag # tag}
                     ELSE rows
         IN  InsertTags(kept \cup {[tag |-> tag, inserted_at |-> inserted_at]},
                        Tail(tags), inserted_at)

\* The re-insert without the DELETE before it.
ResyncTags_NoDelete(rows, record) ==
    InsertTags(rows, record.tags, record.inserted_at)

\* DELETE FROM model_tags WHERE model_id = ..., then the re-insert.
ResyncTags(rows, record) ==
    IF record.tags # <<>> THEN InsertTags({}, record.tags, record.inserted_at) ELSE {}

\* The INSERT without the processed and inserted columns (DEFAULT 0).
SyncLogRow_CountsDefaulted(provider, started_at, processed, inserted) ==
    [provider |-> provider,
     started_at |-> IsoFormat(started_at),
     finished_at |-> IsoFormat(Now),
     status |-> "success",
     processed |-> 0,
     inserted |-> 0,
     error_message |-> None]

\* The INSERT INTO sync_log row.
SyncLogRow(provider, started_at, processed, inserted) ==
    [provider |-> provider,
     started_at |-> IsoFormat(started_at),
     finished_at |-> IsoFormat(Now),
     status |-> "success",
     processed |-> processed,
     inserted |-> inserted,
     error_message |-> None]

\* fetch_models.upsert_provider: every column is overwritten on conflict.
\* now is CURRENT_TIMESTAMP.
HfUpsertProvider(rows, provider_id, avatar_url, display_name, avatar_content, avatar_mime, now) ==
    LET row == [provider_id |-> provider_id, display_name |-> Some(display_name),
                avatar_url |-> avatar_url, avatar_blob |-> avatar_content,
                avatar_mime |-> avatar_mime, updated_at |-> now]
    IN  IF Len(rows) > 0 THEN [i \in 1..Len(rows) |-> row] ELSE <<row>>

\* fetch_models_openrouter.upsert_provider: avatar_url is kept when the new one
\* is null, avatar_blob and avatar_mime are not written.
OrUpsertProvider(rows, provider_id, display_name, now) ==
    LET name == IF display_name # <<>> THEN display_name ELSE provider_id
    IN  IF Len(rows) > 0
        THEN [i \in 1..Len(rows) |->
                [rows[i] EXCEPT !.display_name = Some(name),
                                !.avatar_url = Coalesce(None, rows[i].avatar_url),
                                !.updated_at = now]]
        ELSE <<[provider_id |-> provider_id, display_name |-> Some(name),
                avatar_url |-> None, avatar_blob |-> None, avatar_mime |-> None,
                updated_at |-> now]>>

-----------------------------------------------------------------------------
(* The schema: scripts/init_db.py *)

\* The relations the statements of this code base read and write.
Relations == {"models", "providers", "model_tags", "sync_log"}

MODEL_TABLE_SQL == "models"
SYNC_LOG_TABLE_SQL == "sync_log"
MODEL_TAGS_TABLE_SQL == "model_tags"

\* CREATE INDEX IF NOT EXISTS name ON relation (...)
INDICES_SQL ==
    << [name |-> "idx_models_provider_created_at", relation |-> "models"],
       [name |-> "idx_models_inserted_at", relation |-> "models"],
       [name |-> "idx_sync_log_provider_started_at", relation |-> "sync_log"],
       [name |-> "idx_model_tags_tag", relation |-> "model_tags"],
       [name |-> "idx_model_tags_model_id", relation |-> "model_tags"] >>

Indexes == {INDICES_SQL[i].name : i \in 1..Len(INDICES_SQL)}

\* CREATE TABLE IF NOT EXISTS / CREATE INDEX IF NOT EXISTS: the object is added
\* when no object of that name exists, a present one is left as it is.
CreateIfNotExists(objects, name) == objects \cup {name}

RECURSIVE CreateIndexes(_, _)
CreateIndexes(objects, statements) ==
    IF statements = <<>> THEN objects
    ELSE CreateIndexes(CreateIfNotExists(objects, Head(statements).name),
                       Tail(statements))

\* create_schema: the three CREATE TABLE statements, then the indexes, each
\* committed as it runs (autocommit).
create_schema(objects) ==
    CreateIndexes(
        CreateIfNotExists(
            CreateIfNotExists(
                CreateIfNotExists(objects, MODEL_TABLE_SQL),
                SYNC_LOG_TABLE_SQL),
            MODEL_TAGS_TABLE_SQL),
        INDICES_SQL)

\* A database that holds every relation and index.
FullSchema == Relations \cup Indexes

-----------------------------------------------------------------------------
(* State *)

EmptyTx == [status |-> "idle", models |-> EmptyMap, model_tags |-> EmptyMap,
            providers |-> EmptyMap]

\* What the Hugging Face connection reads: the committed rows, and its own
\* uncommitted writes over them (READ COMMITTED).
HfModels(m) == IF m \in DOMAIN hfTx.models THEN hfTx.models[m] ELSE models[m]
HfProviders(p) == IF p \in DOMAIN hfTx.providers THEN hfTx.providers[p] ELSE providers[p]

HfIdle == [pc |-> "idle", providers |-> <<>>, idx |-> 0, started_at |-> 0,
           batch |-> <<>>, processed |-> 0, inserted |-> 0, created |-> 0,
           results |-> EmptyMap, runs |-> <<>>, upsert_failed |-> FALSE,
           network |-> FALSE, error |-> "none"]

OrIdle == [pc |-> "idle", providers_filter |-> <<>>, raw_models |-> <<>>,
           idx |-> 0, started_at |-> 0, results |-> EmptyMap,
           returned |-> <<0, 0>>, calls |-> 0, network |-> FALSE, error |-> "none"]

\* No request was served yet.
ApiIdle == [op |-> "none"]

EmptyDbModels == [m \in ModelIds |-> <<>>]

\* A row written by a source outside this code base, which fills the ranks.
EnrichedRow ==
    [model_id |-> IdMB, provider |-> <<"m">>, model_name |-> <<"b">>,
     description |-> <<>>, tags |-> JsonDumpsList(<<>>),
     created_at |-> FormatTimestampOf(Instant(0)), downloads |-> None, likes |-> None,
     model_card_url |-> <<"https://huggingface.co/">> \o IdMB,
     inserted_at |-> FormatTimestampOf(Instant(0)), is_open_source |-> None,
     price |-> Some(JsonDumpsDict("p0")), opencompass_rank |-> Some(7),
     huggingface_rank |-> Some(3)]

Init ==
    /\ models \in {EmptyDbModels, [EmptyDbModels EXCEPT ![IdMB] = <<EnrichedRow>>]}
    /\ model_tags = [m \in ModelIds |-> {}]
    /\ sync_log = <<>>
    /\ providers = [p \in ProviderIds |-> <<>>]
    /\ clock = 0
    /\ hf = HfIdle
    /\ hfTx = EmptyTx
    /\ orr = OrIdle
    /\ env = Environment
    /\ schema = FullSchema
    /\ api = ApiIdle

-----------------------------------------------------------------------------
(* The Hugging Face driver: fetch_models.fetch_and_store *)

\* resolve_provider_profile: (display_name, avatar_url), whichever tier answers.
ProfileResults(provider) ==
    {<<provider, None>>, <<<<"N">>, Some(<<"u">>)>>}

\* download_provider_avatar: (content, mime), or (None, None) without a URL, on a
\* failed or refused download and for a payload over AVATAR_MAX_BYTES.
DownloadResults(avatar_url) ==
    IF ~Truthy(avatar_url) THEN {<<None, None>>}
    ELSE {<<None, None>>, <<Some(Bytes(3, "img")), Some("image/png")>>}

HfProvider == hf.providers[hf.idx]

\* The exception leaves a block that commits what was written so far.
HfRaise_Commits(error, locals) ==
    /\ hf' = [locals EXCEPT !.pc = "raised", !.error = error]
    /\ hfTx' = EmptyTx
    /\ models' = [m \in ModelIds |-> HfModels(m)]
    /\ model_tags' = [m \in ModelIds |->
           IF m \in DOMAIN hfTx.model_tags THEN hfTx.model_tags[m] ELSE model_tags[m]]
    /\ providers' = [p \in ProviderIds |-> HfProviders(p)]
    /\ UNCHANGED <<env, schema, api, sync_log, clock, orr>>

\* The exception leaves "with ensure_db() as conn": rollback, close.
HfRaise(error, locals) ==
    /\ hf' = [locals EXCEPT !.pc = "raised", !.error = error]
    /\ hfTx' = EmptyTx
    /\ UNCHANGED <<env, schema, api, models, model_tags, sync_log, providers, clock, orr>>

\* get_providers(PROVIDERS) is empty: RuntimeError, before ensure_db().
HfConfigError ==
    /\ hf.pc \in {"idle", "done", "raised"}
    /\ get_providers(env.PROVIDERS) = <<>>
    /\ hf' = [HfIdle EXCEPT !.pc = "raised", !.error = "config"]
    /\ hfTx' = EmptyTx
    /\ UNCHANGED <<env, schema, api, models, model_tags, sync_log, providers, clock, orr>>

\* hf_client(), get_providers(PROVIDERS), ensure_db().
HfStartWithin(limit) ==
    /\ hf.pc \in {"idle", "done", "raised"}
    /\ clock < limit
    /\ get_providers(env.PROVIDERS) # <<>>
    /\ hf' = [HfIdle EXCEPT !.pc = "provider", !.idx = 1,
                            !.providers = get_providers(env.PROVIDERS)]
    /\ hfTx' = EmptyTx
    /\ schema' = create_schema(schema)
    /\ UNCHANGED <<env, api, models, model_tags, sync_log, providers, clock, orr>>

\* Loop body up to save_models: resolve_provider_profile, download_provider_avatar,
\* upsert_provider under try/except, client.list_models (a lazy iterator),
\* started_at = now.
HfBeginProviderWithin(limit) ==
    /\ hf.pc = "provider"
    /\ hf.idx <= Len(hf.providers)
    /\ clock < limit
    /\ clock' = clock + 1
    /\ \E profile \in ProfileResults(HfProvider), db_ok \in BOOLEAN :
       \E avatar \in DownloadResults(profile[2]) :
          /\ db_ok => "providers" \in schema
          /\ IF db_ok
             THEN hfTx' = [hfTx EXCEPT
                      !.status = "intrans",
                      !.providers = Put(hfTx.providers, HfProvider,
                          HfUpsertProvider(HfProviders(HfProvider), HfProvider,
                              profile[2], profile[1], avatar[1], avatar[2],
                              Instant(clock + 1)))]
             ELSE hfTx' = [hfTx EXCEPT !.status = "inerror"]
          /\ hf' = [hf EXCEPT !.pc = "saving", !.started_at = clock + 1,
                              !.batch = <<>>, !.processed = 0, !.inserted = 0,
                              !.created = 0, !.upsert_failed = ~db_ok,
                              !.network = TRUE]
    /\ UNCHANGED <<env, schema, api, models, model_tags, sync_log, providers, orr>>

\* One turn of "for record in records" in save_models.
HfIngest ==
    /\ hf.pc = "saving"
    /\ hfTx.status # "inerror"
    /\ Len(hf.batch) < MaxBatch
    /\ \E info \in HfListing(HfProvider) :
          LET record == to_record(HfProvider, info)
              m == record.model_id
              old == HfModels(m)
          IN  /\ hfTx' = [hfTx EXCEPT
                     !.status = "intrans",
                     !.models = Put(hfTx.models, m, HfUpsert(old, HfExcluded(record))),
                     !.model_tags = Put(hfTx.model_tags, m,
                                        ResyncTags(model_tags[m], record))]
              /\ hf' = [hf EXCEPT
                     !.batch = Append(hf.batch, record),
                     !.processed = CountProcessed(hf.processed),
                     !.inserted = CountInserted(hf.inserted, Rowcount(old)),
                     !.created = hf.created + (IF old = <<>> THEN 1 ELSE 0)]
    /\ UNCHANGED <<env, schema, api, models, model_tags, sync_log, providers, clock, orr>>

\* The same turn after upsert_provider failed: the transaction is aborted and
\* the INSERT raises InFailedSqlTransaction.
HfIngestAborted ==
    /\ hf.pc = "saving"
    /\ hfTx.status = "inerror"
    /\ \E info \in HfListing(HfProvider) :
          HfRaise("InFailedSqlTransaction",
                  [hf EXCEPT !.batch = Append(hf.batch, to_record(HfProvider, info)),
                             !.processed = CountProcessed(hf.processed)])

\* The listing iterator raises (network failure, non-2xx from the Hub).
HfListingFails ==
    /\ hf.pc = "saving"
    /\ HfRaise("listing", hf)

\* A statement of the batch, or the commit, raises a database error.
HfDatabaseFails ==
    /\ hf.pc = "saving"
    /\ hfTx.status # "inerror"
    /\ HfRaise("database", hf)

\* The iterator is exhausted: INSERT INTO sync_log, conn.commit(), return.
HfFinishProvider ==
    /\ hf.pc = "saving"
    /\ hfTx.status # "inerror"
    /\ LET row == SyncLogRow(HfProvider, Instant(hf.started_at), hf.processed, hf.inserted)
       IN  /\ models' = [m \in ModelIds |-> HfModels(m)]
           /\ model_tags' = [m \in ModelIds |->
                  IF m \in DOMAIN hfTx.model_tags THEN hfTx.model_tags[m]
                  ELSE model_tags[m]]
           /\ providers' = [p \in ProviderIds |-> HfProviders(p)]
           /\ sync_log' = Append(sync_log, row)
    /\ hfTx' = EmptyTx
    /\ hf' = [hf EXCEPT
           !.pc = "provider",
           !.idx = hf.idx + 1,
           !.results = Put(hf.results, HfProvider, <<hf.processed, hf.inserted>>),
           !.runs = Append(hf.runs, [provider |-> HfProvider,
                                     started_at |-> hf.started_at,
                                     model_ids |-> {hf.batch[i].model_id :
                                                        i \in 1..Len(hf.batch)}])]
    /\ UNCHANGED <<env, schema, api, clock, orr>>

\* The same after upsert_provider failed: the INSERT INTO sync_log raises.
HfFinishAborted ==
    /\ hf.pc = "saving"
    /\ hfTx.status = "inerror"
    /\ HfRaise("InFailedSqlTransaction", hf)

\* Every provider is done: the with block commits and closes, results returned.
HfReturn ==
    /\ hf.pc = "provider"
    /\ hf.idx > Len(hf.providers)
    /\ hf' = [hf EXCEPT !.pc = "done"]
    /\ hfTx' = EmptyTx
    /\ UNCHANGED <<env, schema, api, models, model_tags, sync_log, providers, clock, orr>>

-----------------------------------------------------------------------------
(* The OpenRouter driver: fetch_models_openrouter.fetch_and_store *)

SeqsUpTo(S, n) == UNION {[1..k -> S] : k \in 0..n}

InSeq(x, xs) == \E i \in 1..Len(xs) : xs[i] = x

OrItemNow == orr.raw_models[orr.idx]

\* provider_display of fetch_and_store.
OrProviderDisplay(item, record) ==
    LET first == Strip(BeforeFirst(IF Truthy(item.name) THEN TheValue(item.name)
                                   ELSE record.provider, ":"))
        second == IF first = <<>> /\ record.model_id # <<>>
                     /\ Contains(record.model_id, "/")
                  THEN Strip(BeforeFirst(record.model_id, "/"))
                  ELSE first
    IN  IF second # <<>> THEN second ELSE record.provider

\* load_config, get_providers(PROVIDERS_OPENROUTER), fetch_remote_models,
\* ensure_db().
OrFetchWithin(limit) ==
    /\ orr.pc \in {"idle", "done", "raised"}
    /\ clock < limit
    /\ clock' = clock + 1
    /\ \E data \in SeqsUpTo(OrItems, MaxOrItems) :
          orr' = [OrIdle EXCEPT !.pc = "loop", !.raw_models = data, !.idx = 1,
                                !.providers_filter =
                                    or_get_providers(env.PROVIDERS_OPENROUTER),
                                !.started_at = clock + 1, !.network = TRUE]
    /\ schema' = create_schema(schema)
    /\ UNCHANGED <<env, api, models, model_tags, sync_log, providers, hf, hfTx>>

\* fetch_remote_models raises (raise_for_status, or an unexpected schema).
OrFetchFailsWithin(limit) ==
    /\ orr.pc \in {"idle", "done", "raised"}
    /\ clock < limit
    /\ clock' = clock + 1
    /\ orr' = [OrIdle EXCEPT !.pc = "raised", !.error = "fetch",
                            !.providers_filter =
                                or_get_providers(env.PROVIDERS_OPENROUTER),
                            !.started_at = clock + 1, !.network = TRUE]
    /\ UNCHANGED <<env, schema, api, models, model_tags, sync_log, providers, hf, hfTx>>

\* "continue": the item's provider key is not in the configured filter.
OrSkipItem ==
    /\ orr.pc = "loop"
    /\ orr.idx <= Len(orr.raw_models)
    /\ LET filter == orr.providers_filter
       IN  filter # <<>> /\ ~InSeq(or_to_record(OrItemNow).provider, filter)
    /\ orr' = [orr EXCEPT !.idx = orr.idx + 1]
    /\ UNCHANGED <<env, schema, api, models, model_tags, sync_log, providers, clock, hf, hfTx>>

\* upsert_provider, save_models(conn, provider_key, [record]) with its commit,
\* and the totals.  The statements wait for the row locks another open
\* transaction holds on the provider and the model.
OrStoreItem ==
    /\ orr.pc = "loop"
    /\ orr.idx <= Len(orr.raw_models)
    /\ LET filter == orr.providers_filter
           record == or_to_record(OrItemNow)
           key == record.provider
           m == record.model_id
           old == models[m]
           processed == CountProcessed(0)
           inserted == CountInserted(0, Rowcount(old))
           existing == IF key \in DOMAIN orr.results THEN orr.results[key] ELSE <<0, 0>>
       IN  /\ ~(filter # <<>> /\ ~InSeq(key, filter))
           /\ "providers" \in schema
           /\ key \notin DOMAIN hfTx.providers
           /\ m \notin DOMAIN hfTx.models
           /\ providers' = [providers EXCEPT ![key] =
                  OrUpsertProvider(providers[key], key,
                                   OrProviderDisplay(OrItemNow, record), Now)]
           /\ models' = [models EXCEPT ![m] = OrUpsert(old, OrExcluded(key, record))]
           /\ orr' = [orr EXCEPT
                  !.idx = orr.idx + 1,
                  !.returned = <<processed, inserted>>,
                  !.calls = orr.calls + 1,
                  !.results = Put(orr.results, key,
                                  <<existing[1] + processed, existing[2] + inserted>>)]
    /\ UNCHANGED <<env, schema, api, model_tags, sync_log, clock, hf, hfTx>>

\* A statement or the commit raises: the with block rolls back and closes.
OrDatabaseFails ==
    /\ orr.pc = "loop"
    /\ orr.idx <= Len(orr.raw_models)
    /\ orr' = [orr EXCEPT !.pc = "raised", !.error = "database"]
    /\ UNCHANGED <<env, schema, api, models, model_tags, sync_log, providers, clock, hf, hfTx>>

\* Every item is done: results returned.
OrReturn ==
    /\ orr.pc = "loop"
    /\ orr.idx > Len(orr.raw_models)
    /\ orr' = [orr EXCEPT !.pc = "done"]
    /\ UNCHANGED <<env, schema, api, models, model_tags, sync_log, providers, clock, hf, hfTx>>

-----------------------------------------------------------------------------
(* The Query API: backend/main.py *)

AVATAR_MAX_BYTES == 524288

\* What the avatar host can answer to client.get(avatar_url): no answer
\* (httpx.RequestError), or a final status with a body.
RequestError == [status |-> 0, content |-> Bytes(0, "")]

\* The request made no upstream fetch.
NoFetch == [status |-> -1, content |-> Bytes(0, "")]

AvatarUpstream ==
    {RequestError}
      \cup {[status |-> st, content |-> Bytes(0, "")] : st \in {403, 404, 500}}
      \cup {[status |-> 200, content |-> c] :
               c \in {Bytes(0, ""), Bytes(3, "img"),
                      Bytes(AVATAR_MAX_BYTES, "max"), Bytes(AVATAR_MAX_BYTES + 1, "big")}}

\* The response of provider_avatar, with what the request did: the upstream
\* fetches it made, the answer it got, and the providers row it left.
AvatarResponse(provider_id, status, content, media_type, fetches, upstream, stored) ==
    [op |-> "provider_avatar", provider_id |-> provider_id, status |-> status,
     content |-> content, media_type |-> media_type, fetches |-> fetches,
     upstream |-> upstream, stored |-> stored]

\* UPDATE providers SET avatar_blob, avatar_mime, updated_at WHERE provider_id
AvatarCacheUpdate(rows, content, content_type, now) ==
    [i \in 1..Len(rows) |->
        [rows[i] EXCEPT !.avatar_blob = Some(content),
                        !.avatar_mime = Some(content_type),
                        !.updated_at = now]]

\* The payload is cached.
AvatarCacheable_Always(content) == TRUE

\* len(content) <= AVATAR_MAX_BYTES
AvatarCacheable(content) == content.len <= AVATAR_MAX_BYTES

\* GET /api/providers/{provider_id}/avatar.  The request waits for a sync run
\* that holds the provider's row locked.
ProviderAvatar ==
    /\ "providers" \in schema
    /\ \E provider_id \in ProviderIds :
       LET rows == providers[provider_id]
           row == rows[1]
           mime == IF row.avatar_mime # None THEN TheValue(row.avatar_mime)
                   ELSE "image/png"
       IN  /\ provider_id \notin DOMAIN hfTx.providers
           /\ IF rows = <<>>
              THEN /\ api' = AvatarResponse(provider_id, 404, None, "none", 0,
                                            NoFetch, rows)
                   /\ providers' = providers
              ELSE IF BytesTruthy(row.avatar_blob)
              THEN /\ api' = AvatarResponse(provider_id, 200, row.avatar_blob, mime,
                                            0, NoFetch, rows)
                   /\ providers' = providers
              ELSE IF ~Truthy(row.avatar_url)
              THEN /\ api' = AvatarResponse(provider_id, 404, None, "none", 0,
                                            NoFetch, rows)
                   /\ providers' = providers
              ELSE \E upstream \in AvatarUpstream, db_ok \in BOOLEAN :
                      LET failed == upstream = RequestError
                          status == IF failed THEN 502
                                    ELSE IF upstream.status = 404 THEN 404
                                    ELSE IF upstream.status >= 500 THEN 502
                                    ELSE IF upstream.status >= 400 THEN upstream.status
                                    ELSE 200
                          written == IF status = 200 /\ db_ok
                                        /\ AvatarCacheable(upstream.content)
                                     THEN AvatarCacheUpdate(rows, upstream.content,
                                                            "image/png", Now)
                                     ELSE rows
                      IN  /\ providers' = [providers EXCEPT ![provider_id] = written]
                          /\ api' = AvatarResponse(provider_id, status,
                                        IF status = 200 THEN Some(upstream.content)
                                        ELSE None,
                                        IF status = 200 THEN "image/png" ELSE "none",
                                        1, upstream, written)
    /\ UNCHANGED <<models, model_tags, sync_log, clock, hf, hfTx, orr, env, schema>>

\* The code point of the character between date and time: the database
\* compares the TEXT column created_at with the text parameters character by
\* character.
SeparatorCode(c) == IF c = " " THEN 32 ELSE 84

\* a <= b for two timestamp texts (fixed-width date, separator, fixed-width time).
StampTextLeq(a, b) ==
    \/ a[1] < b[1]
    \/ /\ a[1] = b[1]
       /\ \/ SeparatorCode(a[2]) < SeparatorCode(b[2])
          \/ a[2] = b[2] /\ a[3] <= b[3]

\* The proleptic Gregorian calendar of datetime: days since 1970-01-01.
LeapsBefore(y) == ((y - 1) \div 4) - ((y - 1) \div 100) + ((y - 1) \div 400)
JanFirst(y) == 365 * (y - 1970) + LeapsBefore(y) - LeapsBefore(1970)
YearOf(day) ==
    CHOOSE y \in (1970 + (day \div 366))..(1971 + (day \div 365)) :
        JanFirst(y) <= day /\ day < JanFirst(y + 1)

\* The window that starts after it ends.
calculate_timeline_window_Inverted(preset, year, now) ==
    [start |-> [now EXCEPT !.day = now.day + 30], end |-> now]

\* _calculate_timeline_window(preset, year), with now = datetime.utcnow(): the
\* start and the end of the window (the display label is left out).
calculate_timeline_window(preset, year, now) ==
    IF year # None
    THEN [start |-> [day |-> JanFirst(TheValue(year)), sec |-> 0],
          end |-> [day |-> JanFirst(TheValue(year) + 1) - 1, sec |-> 86399]]
    ELSE IF preset = "6m"
    THEN [start |-> [now EXCEPT !.day = now.day - 182], end |-> now]
    ELSE IF preset = "1y"
    THEN [start |-> [day |-> JanFirst(YearOf(now.day)), sec |-> 0], end |-> now]
    ELSE [start |-> [now EXCEPT !.day = now.day - 30], end |-> now]

\* text LIKE pattern: % matches any run of characters, _ any one character.
RECURSIVE LikeMatch(_, _)
LikeMatch(text, pattern) ==
    IF pattern = <<>> THEN text = <<>>
    ELSE IF Head(pattern) = "%"
    THEN LikeMatch(text, Tail(pattern))
            \/ (text # <<>> /\ LikeMatch(Tail(text), pattern))
    ELSE /\ text # <<>>
         /\ Head(pattern) = "_" \/ Head(pattern) = Head(text)
         /\ LikeMatch(Tail(text), Tail(pattern))

\* text ILIKE f"%{needle}%"
ILikeContains(text, needle) ==
    LikeMatch(Lower(text), <<"%">> \o Lower(needle) \o <<"%">>)

\* The legacy reading only: the text split at the commas.
parse_tags_CommaSeparated(raw) == SplitStripped(Strip(raw))

\* _parse_tags(raw)
parse_tags(raw) ==
    IF raw = <<>> THEN <<>>
    ELSE LET text == Strip(raw)
         IN  IF text # <<>> /\ Head(text) = "[" /\ JsonLoadsList(text).ok
             THEN JsonLoadsList(text).value
             ELSE SplitStripped(text)

\* The rows of table models, each named by its key and its place under it.
ModelRows == UNION {{<<m, i>> : i \in 1..Len(models[m])} : m \in ModelIds}

RowAt(r) == models[r[1]][r[2]]

\* ORDER BY created_at ASC / DESC: every order of the rows the sort key allows
\* (rows with equal keys come in any order).
Orderings(rows, descending) ==
    {order \in [1..Cardinality(rows) -> rows] :
        /\ \A i, j \in 1..Cardinality(rows) : i # j => order[i] # order[j]
        /\ \A i \in 1..(Cardinality(rows) - 1) :
              IF descending
              THEN StampTextLeq(RowAt(order[i + 1]).created_at, RowAt(order[i]).created_at)
              ELSE StampTextLeq(RowAt(order[i]).created_at, RowAt(order[i + 1]).created_at)}

\* LIMIT limit OFFSET offset
LimitOffset(order, limit, offset) ==
    SubSeq(order, offset + 1, Min(Len(order), offset + limit))

\* The time that passes between the last sync run and a request.
RequestDelays == {0, 86400}

\* The query parameters of GET /api/timeline.
TimelineRequests ==
    [preset : {"30d", "6m", "1y"},
     year : {None, Some(1900), Some(1970), Some(3000)},
     page : {1, 2},
     page_size : {5, 10},
     sort : {"asc", "desc"},
     provider : {None, Some(<<"m">>)},
     model_name : {None, Some(<<"a">>)}]

\* The Query(...) declarations of timeline_models: what FastAPI accepts.
TimelineValid(q) ==
    /\ q.preset \in {"30d", "6m", "1y"}
    /\ q.year # None => 1900 <= TheValue(q.year) /\ TheValue(q.year) <= 3000
    /\ q.page >= 1
    /\ 10 <= q.page_size /\ q.page_size <= 500
    /\ q.sort \in {"asc", "desc"}

\* The WHERE clause of timeline_models.
TimelineWhere(row, start, end, q) ==
    /\ StampTextLeq(start, row.created_at) /\ StampTextLeq(row.created_at, end)
    /\ Truthy(q.provider) => row.provider = TheValue(q.provider)
    /\ Truthy(q.model_name) => ILikeContains(row.model_name, TheValue(q.model_name))

\* LEFT JOIN providers AS p ON m.provider = p.provider_id: p.avatar_url
JoinedAvatarUrl(provider) ==
    IF provider \in DOMAIN providers /\ Len(providers[provider]) > 0
    THEN providers[provider][1].avatar_url
    ELSE None

TimelineModel(row) ==
    [model_id |-> row.model_id,
     provider |-> row.provider,
     model_name |-> row.model_name,
     description |-> row.description,
     created_at |-> row.created_at,
     model_card_url |-> row.model_card_url,
     tags |-> parse_tags(row.tags),
     avatar_url |-> JoinedAvatarUrl(row.provider)]

HfRunning == hf.pc \in {"provider", "saving"}
OrRunning == orr.pc = "loop"

\* The requests are served between sync runs.
Quiet == ~HfRunning /\ ~OrRunning

\* GET /api/timeline, for a request out of the given ones
TimelineOf(requests) ==
    /\ Quiet
    /\ {"models", "providers"} \subseteq schema
    /\ \E q \in requests, later \in RequestDelays :
         IF ~TimelineValid(q)
         THEN api' = [op |-> "timeline", status |-> 422, request |-> q]
         ELSE LET now == Instant(clock + later)
                  window == calculate_timeline_window(q.preset, q.year, now)
                  start == IsoFormat(window.start)
                  end == IsoFormat(window.end)
                  offset == (q.page - 1) * q.page_size
                  matching == {r \in ModelRows : TimelineWhere(RowAt(r), start, end, q)}
              IN  \E order \in Orderings(matching, q.sort # "asc") :
                     LET rows == LimitOffset(order, q.page_size, offset)
                     IN  api' = [op |-> "timeline", status |-> 200, request |-> q,
                                 now |-> now, rows |-> rows,
                                 items |-> [i \in 1..Len(rows) |->
                                              TimelineModel(RowAt(rows[i]))],
                                 total |-> Cardinality(matching),
                                 page |-> q.page,
                                 page_size |-> q.page_size,
                                 start |-> start,
                                 end |-> end,
                                 preset |-> IF q.year # None THEN "year" ELSE q.preset]
    /\ UNCHANGED <<models, model_tags, sync_log, providers, clock, hf, hfTx, orr,
                   env, schema>>

Timeline == TimelineOf(TimelineRequests)

\* The query parameters of GET /api/models.
ListRequests ==
    [page : {1, 2},
     page_size : {1, 2, 100, 101},
     provider : {None, Some(<<"m">>)},
     tag : {None, Some(<<"b">>)},
     search : {None, Some(<<"O">>), Some(<<"_">>)}]

\* The Query(...) declarations of list_models.
ListValid(q) == q.page >= 1 /\ 1 <= q.page_size /\ q.page_size <= 100

\* The WHERE clause of list_models.
ListWhere(row, q) ==
    /\ Truthy(q.provider) => row.provider = TheValue(q.provider)
    /\ Truthy(q.tag) => ILikeContains(row.tags, TheValue(q.tag))
    /\ Truthy(q.search) =>
          \/ ILikeContains(row.model_name, TheValue(q.search))
          \/ ILikeContains(row.description, TheValue(q.search))

Model(row) ==
    [model_id |-> row.model_id,
     provider |-> row.provider,
     model_name |-> row.model_name,
     description |-> row.description,
     tags |-> parse_tags(row.tags),
     created_at |-> row.created_at,
     downloads |-> row.downloads,
     likes |-> row.likes,
     model_card_url |-> row.model_card_url]

\* GET /api/models
ListModels ==
    /\ Quiet
    /\ "models" \in schema
    /\ \E q \in ListRequests :
         IF ~ListValid(q)
         THEN api' = [op |-> "list_models", status |-> 422, request |-> q]
         ELSE LET offset == (q.page - 1) * q.page_size
                  matching == {r \in ModelRows : ListWhere(RowAt(r), q)}
              IN  \E order \in Orderings(matching, TRUE) :
                     LET rows == LimitOffset(order, q.page_size, offset)
                     IN  api' = [op |-> "list_models", status |-> 200, request |-> q,
                                 rows |-> rows,
                                 items |-> [i \in 1..Len(rows) |-> Model(RowAt(rows[i]))],
                                 total |-> Cardinality(matching),
                                 page |-> q.page,
                                 page_size |-> q.page_size]
    /\ UNCHANGED <<models, model_tags, sync_log, providers, clock, hf, hfTx, orr,
                   env, schema>>

\* The path parameter of GET /api/models/{model_id}: a stored id or another.
ModelIdRequests == ModelIds \cup {<<"x">>}

\* GET /api/models/{model_id}
GetModel ==
    /\ Quiet
    /\ "models" \in schema
    /\ \E model_id \in ModelIdRequests :
         LET found == {r \in ModelRows : RowAt(r).model_id = model_id}
         IN  IF found = {}
             THEN api' = [op |-> "get_model", status |-> 404, request |-> model_id]
             ELSE \E r \in found :
                     api' = [op |-> "get_model", status |-> 200, request |-> model_id,
                             rows |-> <<r>>, items |-> <<Model(RowAt(r))>>]
    /\ UNCHANGED <<models, model_tags, sync_log, providers, clock, hf, hfTx, orr,
                   env, schema>>

-----------------------------------------------------------------------------
(* The sync runs one after the other *)

\* The external scheduler starts a driver while no other sync run is open.
HfStart == ~OrRunning /\ HfStartWithin(MaxClock)
OrFetch == ~HfRunning /\ OrFetchWithin(MaxClock)
OrFetchFails == ~HfRunning /\ OrFetchFailsWithin(MaxClock)
HfBeginProvider == HfBeginProviderWithin(MaxClock)

Next ==
    \/ HfStart
    \/ HfBeginProvider
    \/ HfIngest
    \/ HfIngestAborted
    \/ HfListingFails
    \/ HfDatabaseFails
    \/ HfFinishProvider
    \/ HfFinishAborted
    \/ HfReturn
    \/ OrFetch
    \/ OrFetchFails
    \/ OrSkipItem
    \/ OrStoreItem
    \/ OrDatabaseFails
    \/ OrReturn

Spec == Init /\ [][Next]_vars

\* Nothing serializes the drivers: either may be started while the other runs.
NextOverlap ==
    \/ HfStartWithin(MaxOverlapClock)
    \/ HfBeginProviderWithin(MaxOverlapClock)
    \/ HfIngest
    \/ HfIngestAborted
    \/ HfListingFails
    \/ HfDatabaseFails
    \/ HfFinishProvider
    \/ HfFinishAborted
    \/ HfReturn
    \/ OrFetchWithin(MaxOverlapClock)
    \/ OrFetchFailsWithin(MaxOverlapClock)
    \/ OrSkipItem
    \/ OrStoreItem
    \/ OrDatabaseFails
    \/ OrReturn

SpecOverlap == Init /\ [][NextOverlap]_vars

\* The drivers under every configuration of the two allowlists: unset, empty,
\* blank, separators only, one provider, two providers.
InitConfig ==
    /\ models \in {EmptyDbModels, [EmptyDbModels EXCEPT ![IdMB] = <<EnrichedRow>>]}
    /\ model_tags = [m \in ModelIds |-> {}]
    /\ sync_log = <<>>
    /\ providers = [p \in ProviderIds |-> <<>>]
    /\ clock = 0
    /\ hf = HfIdle
    /\ hfTx = EmptyTx
    /\ orr = OrIdle
    /\ env \in [PROVIDERS : {None, Some(<<>>), Some(<<" ">>), Some(<<",">>),
                              Some(<<"m">>), Some(<<"M">>), Some(EnvProviders)},
                 PROVIDERS_OPENROUTER : {None, Some(<<>>), Some(<<",", " ">>),
                                         Some(<<"g">>), Some(EnvProvidersOpenRouter)}]
    /\ schema = FullSchema
    /\ api = ApiIdle

NextConfig ==
    \/ ~OrRunning /\ HfConfigError
    \/ ~OrRunning /\ HfStartWithin(MaxConfigClock)
    \/ HfBeginProviderWithin(MaxConfigClock)
    \/ HfIngest
    \/ HfIngestAborted
    \/ HfListingFails
    \/ HfDatabaseFails
    \/ HfFinishProvider
    \/ HfFinishAborted
    \/ HfReturn
    \/ ~HfRunning /\ OrFetchWithin(MaxConfigClock)
    \/ ~HfRunning /\ OrFetchFailsWithin(MaxConfigClock)
    \/ OrSkipItem
    \/ OrStoreItem
    \/ OrDatabaseFails
    \/ OrReturn

SpecConfig == InitConfig /\ [][NextConfig]_vars

\* The avatar proxy beside the sync runs of one provider.
InitAvatar ==
    /\ models = EmptyDbModels
    /\ model_tags = [m \in ModelIds |-> {}]
    /\ sync_log = <<>>
    /\ providers = [p \in ProviderIds |-> <<>>]
    /\ clock = 0
    /\ hf = HfIdle
    /\ hfTx = EmptyTx
    /\ orr = OrIdle
    /\ env = [PROVIDERS |-> Some(<<"m">>),
              PROVIDERS_OPENROUTER |-> Some(EnvProvidersOpenRouter)]
    /\ schema = FullSchema
    /\ api = ApiIdle

NextAvatar ==
    \/ ~OrRunning /\ HfStartWithin(MaxAvatarClock)
    \/ HfBeginProviderWithin(MaxAvatarClock)
    \/ HfIngest
    \/ HfIngestAborted
    \/ HfListingFails
    \/ HfDatabaseFails
    \/ HfFinishProvider
    \/ HfFinishAborted
    \/ HfReturn
    \/ ~HfRunning /\ OrFetchWithin(MaxAvatarClock)
    \/ ~HfRunning /\ OrFetchFailsWithin(MaxAvatarClock)
    \/ OrSkipItem
    \/ OrStoreItem
    \/ OrDatabaseFails
    \/ OrReturn
    \/ ProviderAvatar

SpecAvatar == InitAvatar /\ [][NextAvatar]_vars

-----------------------------------------------------------------------------
(* Sync runs, then requests to the Query API *)

MaxQueryClock == 1

\* One Hugging Face author; the OpenRouter allowlist unset or one provider.
InitQuery ==
    /\ models = EmptyDbModels
    /\ model_tags = [m \in ModelIds |-> {}]
    /\ sync_log = <<>>
    /\ providers = [p \in ProviderIds |-> <<>>]
    /\ clock = 0
    /\ hf = HfIdle
    /\ hfTx = EmptyTx
    /\ orr = OrIdle
    /\ env \in {[PROVIDERS |-> Some(<<"m">>), PROVIDERS_OPENROUTER |-> None],
                 [PROVIDERS |-> Some(<<"m">>), PROVIDERS_OPENROUTER |-> Some(<<"m">>)],
                 [PROVIDERS |-> Some(<<"g">>), PROVIDERS_OPENROUTER |-> None]}
    /\ schema = FullSchema
    /\ api = ApiIdle

\* The sync runs come first; the response of one request is then looked at.
NextQuery ==
    \/ api = ApiIdle /\ ~OrRunning /\ HfStartWithin(MaxQueryClock)
    \/ HfBeginProviderWithin(MaxQueryClock)
    \/ HfIngest
    \/ HfIngestAborted
    \/ HfListingFails
    \/ HfDatabaseFails
    \/ HfFinishProvider
    \/ HfFinishAborted
    \/ HfReturn
    \/ api = ApiIdle /\ ~HfRunning /\ OrFetchWithin(MaxQueryClock)
    \/ api = ApiIdle /\ ~HfRunning /\ OrFetchFailsWithin(MaxQueryClock)
    \/ OrSkipItem
    \/ OrStoreItem
    \/ OrDatabaseFails
    \/ OrReturn
    \/ api = ApiIdle /\ Timeline
    \/ api = ApiIdle /\ ListModels
    \/ api = ApiIdle /\ GetModel

SpecQuery == InitQuery /\ [][NextQuery]_vars

-----------------------------------------------------------------------------
(* The timeline window, for every year and preset *)

\* Every year the endpoint accepts, and the years next to them.
WindowRequests ==
    [preset : {"30d", "6m", "1y"},
     year : {None} \cup {Some(y) : y \in 1899..3001},
     page : {1},
     page_size : {10},
     sort : {"asc"},
     provider : {None},
     model_name : {None}]

InitWindow ==
    /\ models = EmptyDbModels
    /\ model_tags = [m \in ModelIds |-> {}]
    /\ sync_log = <<>>
    /\ providers = [p \in ProviderIds |-> <<>>]
    \* the epoch, the last second of a year, the first of the next, a day in 2023
    /\ clock \in {0, 31535999, 31536000, 1700000000}
    /\ hf = HfIdle
    /\ hfTx = EmptyTx
    /\ orr = OrIdle
    /\ env = Environment
    /\ schema = FullSchema
    /\ api = ApiIdle

SpecWindow == InitWindow /\ [][api = ApiIdle /\ TimelineOf(WindowRequests)]_vars

-----------------------------------------------------------------------------
(* The schema manager, on any database *)

MaxCreateCalls == 2

\* The tables an object needs: an index its table, model_tags the table its
\* foreign key names.
Requires(name) ==
    {INDICES_SQL[i].relation : i \in {k \in 1..Len(INDICES_SQL) : INDICES_SQL[k].name = name}}
        \cup (IF name = "model_tags" THEN {"models"} ELSE {})

InitSchema ==
    \* the database holds none, some or all of the objects
    /\ schema \in {objects \in SUBSET FullSchema :
                      \A name \in objects : Requires(name) \subseteq objects}
    /\ models \in {EmptyDbModels} \cup
                  (IF "models" \in schema
                   THEN {[EmptyDbModels EXCEPT ![IdMB] = <<EnrichedRow>>]} ELSE {})
    /\ model_tags = [m \in ModelIds |-> {}]
    /\ sync_log = <<>>
    /\ providers = [p \in ProviderIds |-> <<>>]
    /\ clock = 0
    /\ hf = HfIdle
    /\ hfTx = EmptyTx
    /\ orr = OrIdle
    /\ env = Environment
    /\ api = ApiIdle

\* python scripts/init_db.py, or ensure_db at process start: create_schema(db_url)
CreateSchema ==
    /\ \/ api = ApiIdle
       \/ api.op = "create_schema" /\ api.calls < MaxCreateCalls
    /\ schema' = create_schema(schema)
    /\ api' = [op |-> "create_schema",
               calls |-> IF api = ApiIdle THEN 1 ELSE api.calls + 1]
    /\ UNCHANGED <<models, model_tags, sync_log, providers, clock, hf, hfTx, orr, env>>

SpecSchema == InitSchema /\ [][CreateSchema]_vars

-----------------------------------------------------------------------------
(* The OpenRouter adapter, on every shape of raw item *)

\* Raw catalog items: the id and the name missing, empty, with and without
\* their separators, in either letter case.
RawItems ==
    [id : {None, Some(<<>>), Some(IdMA), Some(IdUA), Some(<<"a">>), Some(<<"/", "a">>)},
     name : {None, Some(<<>>), Some(<<" ">>), Some(<<"M", ":", " ", "a">>),
             Some(<<"M", " ", "a">>), Some(<<":", "a">>), Some(<<"a">>)},
     description : {None, Some(<<"o", "r">>)},
     created : {None, Some(1)},
     pricing : {None}]

InitAdapter ==
    /\ models = EmptyDbModels
    /\ model_tags = [m \in ModelIds |-> {}]
    /\ sync_log = <<>>
    /\ providers = [p \in ProviderIds |-> <<>>]
    /\ clock = 0
    /\ hf = HfIdle
    /\ hfTx = EmptyTx
    /\ orr = OrIdle
    /\ env = Environment
    /\ schema = FullSchema
    /\ api = ApiIdle

\* record = to_record(item), first statement of the loop of fetch_and_store
ToRecord ==
    /\ api = ApiIdle
    /\ \E raw \in RawItems : api' = [op |-> "to_record", raw |-> raw,
                                      record |-> or_to_record(raw)]
    /\ UNCHANGED <<models, model_tags, sync_log, providers, clock, hf, hfTx, orr,
                   env, schema>>

SpecAdapter == InitAdapter /\ [][ToRecord]_vars

-----------------------------------------------------------------------------
(* The provider profile: fetch_models.resolve_provider_profile *)

\* What one source answers.  kind: "absent" (the client has no such method),
\* "ok", "404", "error" (another HTTP status), "network" (the request failed),
\* "not_json", "empty" (an empty payload); name and avatar: the fields of an
\* "ok" answer.
Answer(kind, name, avatar) == [kind |-> kind, name |-> name, avatar |-> avatar]

\* What each source answers: the client methods may be absent from the
\* installed library; a request may fail with 404, with another status or
\* without a response; a JSON body may be unreadable or empty; a payload has
\* or lacks a name (blank, its own, the provider id) and an avatar.
Networks ==
    LET Failures(kinds) == {Answer(k, None, None) : k \in kinds}
        Payloads == {Answer("ok", n, a) :
                        n \in {None, Some(<<" ">>), Some(<<"N">>), Some(<<"m">>)},
                        a \in {None, Some(<<"u">>)}}
        ClientAnswers == Failures({"absent", "404", "error", "network"}) \cup Payloads
        JsonAnswers == Failures({"404", "error", "network", "not_json", "empty"})
                          \cup Payloads
        HtmlAnswers == Failures({"404", "error", "network"}) \cup Payloads
    IN  [organization_info : ClientAnswers, user_info : ClientAnswers,
         json_organizations : JsonAnswers, json_users : JsonAnswers,
         html : HtmlAnswers]

\* isinstance(value, str) and value.strip()
NonBlank(o) == o # None /\ Strip(TheValue(o)) # <<>>

\* _extract_display_name(info, provider_id), for a payload without an id
extract_display_name(info, provider_id) ==
    IF NonBlank(info.name) THEN TheValue(info.name) ELSE provider_id

\* _extract_avatar_url(info)
extract_avatar_url(info) == IF NonBlank(info.avatar) THEN info.avatar ELSE None

Resolved(display_name, avatar_url, calls, raised) ==
    [result |-> <<display_name, avatar_url>>, calls |-> calls, raised |-> raised]

\* fetch_provider_profile_html(provider_id): og:title or the heading, the
\* image of the page; (provider_id, None) when the page cannot be had.
fetch_provider_profile_html(provider_id, net, calls) ==
    LET page == net.html
        title == IF Truthy(page.name) THEN TheValue(page.name) ELSE provider_id
    IN  IF page.kind # "ok"
        THEN Resolved(provider_id, None, Append(calls, "html"), FALSE)
        ELSE Resolved(title, IF Truthy(page.avatar) THEN page.avatar ELSE None,
                      Append(calls, "html"), FALSE)

\* fetch_provider_profile_http(provider_id, token): _http_get_json gives None
\* for a failed request, 404, another status and a body that is not JSON.
RECURSIVE fetch_provider_profile_http(_, _, _, _)
fetch_provider_profile_http(provider_id, net, endpoints, calls) ==
    IF endpoints = <<>> THEN fetch_provider_profile_html(provider_id, net, calls)
    ELSE LET payload == net[Head(endpoints)]
             made == Append(calls, Head(endpoints))
             display_name == extract_display_name(payload, provider_id)
             avatar_url == extract_avatar_url(payload)
         IN  IF payload.kind # "ok"
             THEN fetch_provider_profile_http(provider_id, net, Tail(endpoints), made)
             ELSE IF avatar_url # None \/ display_name # provider_id
             THEN Resolved(display_name, avatar_url, made, FALSE)
             ELSE fetch_provider_profile_http(provider_id, net, Tail(endpoints), made)

\* Only the 404 of the client is caught.
ClientErrorCaught_Only404(kind) == kind = "404"

\* except HfHubHTTPError / except Exception: every failure of a client call
ClientErrorCaught(kind) == TRUE

\* resolve_provider_profile(client, provider_id)
RECURSIVE resolve_provider_profile(_, _, _, _)
resolve_provider_profile(provider_id, net, resolver_groups, calls) ==
    IF resolver_groups = <<>>
    THEN fetch_provider_profile_http(provider_id, net,
                                     <<"json_organizations", "json_users">>, calls)
    ELSE LET info == net[Head(resolver_groups)]
             made == Append(calls, Head(resolver_groups))
         IN  IF info.kind = "absent"
             THEN resolve_provider_profile(provider_id, net, Tail(resolver_groups), calls)
             ELSE IF info.kind = "ok"
             THEN Resolved(extract_display_name(info, provider_id),
                           extract_avatar_url(info), made, FALSE)
             ELSE IF ClientErrorCaught(info.kind)
             THEN resolve_provider_profile(provider_id, net, Tail(resolver_groups), made)
             ELSE Resolved(provider_id, None, made, TRUE)

\* display_name, avatar_url = resolve_provider_profile(client, provider)
ResolveProfile ==
    /\ api = ApiIdle
    /\ \E provider_id \in {<<"m">>}, net \in Networks :
          api' = [op |-> "resolve_provider_profile", provider_id |-> provider_id,
                  net |-> net,
                  out |-> resolve_provider_profile(provider_id, net,
                              <<"organization_info", "user_info">>, <<>>)]
    /\ UNCHANGED <<models, model_tags, sync_log, providers, clock, hf, hfTx, orr,
                   env, schema>>

SpecProfile == InitAdapter /\ [][ResolveProfile]_vars

-----------------------------------------------------------------------------
(* Properties of the upsert engine *)

\* A Hugging Face save_models call has returned and its driver has not gone on
\* to the next provider: hf.batch, hf.created are those of that call.
HfSaved == hf.pc = "provider" /\ hf.idx > 1
HfSavedProvider == hf.providers[hf.idx - 1]
HfReturned == hf.results[HfSavedProvider]

BatchIds(batch) == {batch[i].model_id : i \in 1..Len(batch)}

FirstFor(batch, m) ==
    batch[CHOOSE i \in 1..Len(batch) :
            batch[i].model_id = m /\ \A j \in 1..(i - 1) : batch[j].model_id # m]

LastFor(batch, m) ==
    batch[CHOOSE i \in 1..Len(batch) :
            batch[i].model_id = m /\ \A j \in (i + 1)..Len(batch) : batch[j].model_id # m]

\* C1: the inserted count a Hugging Face save_models run returns is the number
\* of rows the run newly created: a model_id stored before the run, or met
\* earlier in the batch, adds nothing.
C1_InsertedCountsNewRows == HfSaved => HfReturned[2] = hf.created

\* C2: the processed count a completed save_models run returns is the number
\* of input records (Hugging Face: the batch; OpenRouter: the one record of
\* each call), whatever was inserted or updated.
C2_ProcessedEqualsInput ==
    /\ HfSaved => HfReturned[1] = Len(hf.batch)
    /\ orr.calls > 0 => orr.returned[1] = 1

\* A run of three records, two of them sharing a model_id, has returned.
C2_Witness ==
    /\ HfSaved
    /\ Len(hf.batch) = 3
    /\ Cardinality(BatchIds(hf.batch)) = 2
    /\ hf.created < 3

\* The step is an OpenRouter save_models call (with its commit) for model m.
OrStores(m) ==
    /\ orr.pc = "loop"
    /\ orr'.calls = orr.calls + 1
    /\ or_to_record(OrItemNow).model_id = m

\* The step is the commit of a Hugging Face save_models run.
HfCommits == Len(hf'.runs) = Len(hf.runs) + 1

Enrichment == {"price", "opencompass_rank", "huggingface_rank"}

\* C3: non-destructive merge.  A stored non-null price or rank never becomes
\* null, and changes only when an ingestion of that model_id brings a non-null
\* value of its own (which only OpenRouter pricing does); an ingestion with a
\* null value leaves it as it is.
C3_EnrichmentNeverNulled ==
    [][\A m \in ModelIds : \A i \in 1..Len(models[m]) : \A f \in Enrichment :
          models[m][i][f] # None =>
             /\ i <= Len(models'[m])
             /\ models'[m][i][f] # None
             /\ models'[m][i][f] # models[m][i][f] =>
                   /\ f = "price"
                   /\ OrStores(m)
                   /\ or_to_record(OrItemNow).price # None
                   /\ models'[m][i][f] =
                         Some(JsonDumpsDict(TheValue(or_to_record(OrItemNow).price)))
       ]_vars

\* Rows that held a price (and ranks) were ingested again by Hugging Face, whose
\* records carry null for all three, and still hold them.
C3_Witness ==
    /\ models[IdMA] # <<>>
    /\ models[IdMA][1].price = Some(JsonDumpsDict("p1"))
    /\ models[IdMA][1].downloads = Some(123)
    /\ models[IdMB] # <<>>
    /\ models[IdMB][1].opencompass_rank = Some(7)
    /\ models[IdMB][1].huggingface_rank = Some(3)
    /\ models[IdMB][1].price # None
    /\ models[IdMB][1].downloads = Some(123)

Descriptive == {"model_name", "description", "tags", "created_at"}

\* The four descriptive columns as an ingested record sets them.
HfDescriptive(record, f) == HfExcluded(record)[f]
OrDescriptive(record, f) == OrExcluded(record.provider, record)[f]

C5_FirstOccurrenceKept ==
    HfSaved =>
       \A m \in BatchIds(hf.batch) :
          /\ Len(models[m]) = 1
          /\ models[m][1].description = FirstFor(hf.batch, m).description

\* C6: the models table holds at most one row per model_id, in what is
\* committed and in what an open transaction reads, also while two sync runs
\* overlap on the same model_id.
C6_OneRowPerModelId ==
    \A m \in ModelIds : Len(models[m]) <= 1 /\ Len(HfModels(m)) <= 1

\* Both drivers run at once and both have written model m/a: OpenRouter has
\* committed it, the open Hugging Face transaction has upserted it after that.
C6_Witness ==
    /\ hf.pc = "saving"
    /\ orr.pc = "loop"
    /\ orr.calls > 0
    /\ models[IdMA] # <<>>
    /\ IdMA \in DOMAIN hfTx.models
    /\ hfTx.models[IdMA][1].price # None

\* C7: a successful Hugging Face save_models run appends exactly one sync_log
\* row, for its provider, in the commit that stores its records and after all
\* of them were processed, with the processed and inserted counts the run
\* returns; no other step changes sync_log.
C7_OneSyncLogRowPerRun ==
    [][IF HfCommits
       THEN /\ Len(sync_log') = Len(sync_log) + 1
            /\ SubSeq(sync_log', 1, Len(sync_log)) = sync_log
            /\ LET row == sync_log'[Len(sync_log')]
               IN  /\ row.provider = HfProvider
                   /\ row.status = "success"
                   /\ <<row.processed, row.inserted>> = hf'.results[HfProvider]
                   /\ row.processed = Len(hf.batch)
            /\ \A m \in BatchIds(hf.batch) : models[m] # models'[m]
       ELSE sync_log' = sync_log
      ]_vars

\* Both providers of one invocation were synced and each left its row.
C7_Witness ==
    /\ HfSaved
    /\ Len(hf.runs) = 2
    /\ Len(sync_log) = 2
    /\ sync_log[1].provider = <<"m">>
    /\ sync_log[1].processed = 3
    /\ sync_log[2].provider = <<"g">>
    /\ sync_log[2].processed = 1

\* The second a stored timestamp text stands for.
StampOf(text) == text[1] * 86400 + text[3]

\* C8: after a successful OpenRouter fetch_and_store, sync_log holds, for each
\* provider key of the returned mapping, a row of that run with the processed
\* and inserted counts of the run.
C8_OpenRouterRunLogged ==
    orr.pc = "done" =>
       \A key \in DOMAIN orr.results :
          \E i \in 1..Len(sync_log) :
             /\ sync_log[i].provider = key
             /\ StampOf(sync_log[i].started_at) >= orr.started_at
             /\ <<sync_log[i].processed, sync_log[i].inserted>> = orr.results[key]

\* C9: when fetch_and_store has raised while provider k's batch was ingested,
\* nothing that run wrote for provider k is stored (no models row, no
\* model_tags row, no sync_log row carries the run's timestamp), and the rows
\* of the providers committed before k in the invocation are stored.
C9_FailedProviderRolledBack ==
    hf.pc = "raised" =>
       /\ \A m \in ModelIds :
             /\ \A i \in 1..Len(models[m]) :
                   models[m][i].inserted_at # FormatTimestampOf(Instant(hf.started_at))
             /\ \A r \in model_tags[m] :
                   r.inserted_at # FormatTimestampOf(Instant(hf.started_at))
       /\ \A i \in 1..Len(sync_log) :
             sync_log[i].started_at # IsoFormat(Instant(hf.started_at))
       /\ \A j \in 1..Len(hf.runs) :
             /\ \E i \in 1..Len(sync_log) :
                   /\ sync_log[i].provider = hf.runs[j].provider
                   /\ sync_log[i].started_at = IsoFormat(Instant(hf.runs[j].started_at))
                   /\ <<sync_log[i].processed, sync_log[i].inserted>> =
                         hf.results[hf.runs[j].provider]
             /\ \A m \in hf.runs[j].model_ids :
                   /\ models[m] # <<>>
                   /\ \A i \in 1..Len(models[m]) :
                         StampOf(models[m][i].inserted_at) >= hf.runs[j].started_at

\* The second provider's run failed after it had upserted a record, the first
\* provider's run had committed its two records.
C9_Witness ==
    /\ hf.pc = "raised"
    /\ hf.error \in {"listing", "database"}
    /\ Len(hf.runs) = 1
    /\ Cardinality(hf.runs[1].model_ids) = 2
    /\ hf.processed >= 1

\* C10: a database error of upsert_provider is logged and skipped: it never
\* makes the run raise, the provider's save_models still commits.
C10_UpsertErrorSkipped ==
    (hf.pc = "raised" /\ hf.upsert_failed) => hf.error \in {"listing", "database"}

-----------------------------------------------------------------------------
(* Properties of the sync drivers' configuration *)

\* C11: with an empty or unset provider allowlist a sync driver's
\* fetch_and_store ends in a configuration error, having made no upstream
\* request and written no row (Hugging Face: PROVIDERS; OpenRouter:
\* PROVIDERS_OPENROUTER).
C11_EmptyAllowlistIsConfigError ==
    /\ (get_providers(env.PROVIDERS) = <<>> /\ hf.pc # "idle") =>
          /\ hf.pc = "raised"
          /\ hf.error = "config"
          /\ ~hf.network
          /\ hf.runs = <<>>
          /\ hfTx = EmptyTx
    /\ (or_get_providers(env.PROVIDERS_OPENROUTER) = <<>> /\ orr.pc # "idle") =>
          /\ orr.pc = "raised"
          /\ orr.error = "config"
          /\ ~orr.network
          /\ orr.calls = 0

-----------------------------------------------------------------------------
(* Properties of the avatar proxy *)

\* The step is a provider_avatar request (the drivers do not move).
AvatarStep == api'.op = "provider_avatar" /\ hf' = hf /\ orr' = orr

\* C12: a provider_avatar request for a row with no cached blob and a known
\* avatar_url makes exactly one upstream fetch; when that fetch was answered
\* with a payload of at most AVATAR_MAX_BYTES (of any size from 0 on) and the
\* cache write went through, the next request for the provider makes no
\* upstream fetch and returns the same bytes.
C12_SecondRequestServedFromCache ==
    [][AvatarStep =>
          LET p == api'.provider_id
          IN  /\ (/\ providers[p] # <<>>
                  /\ providers[p][1].avatar_blob = None
                  /\ Truthy(providers[p][1].avatar_url)) => api'.fetches = 1
              /\ (/\ api.op = "provider_avatar"
                  /\ api.provider_id = p
                  /\ api.fetches = 1
                  /\ api.status = 200
                  /\ TheValue(api.content).len <= AVATAR_MAX_BYTES
                  /\ api.stored[1].avatar_blob = api.content
                  /\ providers[p] = api.stored) =>
                     /\ api'.fetches = 0
                     /\ api'.status = 200
                     /\ api'.content = api.content
      ]_vars

\* C13: a stored (non-empty) avatar_blob stays stored through every later
\* step, avatar request or sync run.
C13_CachedBlobStays ==
    [][\A p \in ProviderIds :
          (providers[p] # <<>> /\ BytesTruthy(providers[p][1].avatar_blob)) =>
             (providers'[p] # <<>> /\ BytesTruthy(providers'[p][1].avatar_blob))
      ]_vars

\* C14: provider_avatar changes nothing but the row of the requested provider,
\* and that row only when its upstream fetch was answered 200 with a payload
\* of at most AVATAR_MAX_BYTES.  An unknown provider and a row without
\* avatar_url answer 404 without a fetch, a network failure 502, an upstream
\* 404 answers 404, another 4xx is passed through, a 5xx answers 502, an
\* oversized payload is served with 200.
C14_CacheWrittenOnlyWithinCap ==
    [][AvatarStep =>
          LET p == api'.provider_id
              up == api'.upstream
              row == providers[p][1]
          IN  /\ \A q \in ProviderIds \ {p} : providers'[q] = providers[q]
              /\ providers'[p] # providers[p] =>
                    /\ api'.fetches = 1
                    /\ up.status = 200
                    /\ up.content.len <= AVATAR_MAX_BYTES
                    /\ Len(providers'[p]) = Len(providers[p])
                    /\ providers'[p][1] =
                          [row EXCEPT !.avatar_blob = Some(up.content),
                                      !.avatar_mime = providers'[p][1].avatar_mime,
                                      !.updated_at = providers'[p][1].updated_at]
              /\ providers[p] = <<>> => api'.status = 404 /\ api'.fetches = 0
              /\ (providers[p] # <<>> /\ ~BytesTruthy(row.avatar_blob)
                     /\ ~Truthy(row.avatar_url)) => api'.status = 404 /\ api'.fetches = 0
              /\ api'.fetches = 1 =>
                    /\ up = RequestError => api'.status = 502
                    /\ up.status = 404 => api'.status = 404
                    /\ up.status = 403 => api'.status = 403
                    /\ up.status = 500 => api'.status = 502
                    /\ (up.status = 200 /\ up.content.len > AVATAR_MAX_BYTES) =>
                          /\ api'.status = 200
                          /\ api'.content = Some(up.content)
      ]_vars

\* An oversized payload was served and the row still has no blob.
C14_Witness ==
    /\ api.op = "provider_avatar"
    /\ api.fetches = 1
    /\ api.status = 200
    /\ TheValue(api.content).len > AVATAR_MAX_BYTES
    /\ providers[api.provider_id][1].avatar_blob = None
    /\ api.stored = providers[api.provider_id]

-----------------------------------------------------------------------------
(* The Query API *)

TimelineServed == api.op = "timeline" /\ api.status = 200

\* a is not later than b, for two timestamp texts read as instants.
NotLater(a, b) == a[1] < b[1] \/ (a[1] = b[1] /\ a[3] <= b[3])

\* created_at, read as an instant, lies inside the window of the response.
InsideWindow(created_at) == NotLater(api.start, created_at) /\ NotLater(created_at, api.end)

\* C15: every item of a timeline response, and every row counted in its total,
\* has a created_at inside the resolved window [start, end]; for the preset 1y
\* the window runs from January 1 of the current year to now.
C15_TimelineSound ==
    TimelineServed =>
        /\ \A i \in 1..Len(api.items) : InsideWindow(api.items[i].created_at)
        /\ api.total <= Cardinality({r \in ModelRows : InsideWindow(RowAt(r).created_at)})
        /\ api.preset = "1y" =>
              /\ api.end = IsoFormat(api.now)
              /\ api.start = IsoFormat([day |-> JanFirst(YearOf(api.now.day)), sec |-> 0])

\* C16: the start and the end of every timeline response, for every preset and
\* every year from 1900 to 3000, satisfy start <= end, as texts and as instants.
C16_WindowOrdered ==
    TimelineServed => StampTextLeq(api.start, api.end) /\ NotLater(api.start, api.end)

\* A response for the last year accepted: its window ends days after it starts.
C16_Witness ==
    /\ TimelineServed
    /\ api.request.year = Some(3000)
    /\ api.preset = "year"
    /\ api.start[1] < api.end[1]

\* C17: a timeline request with a small page size (preset 1y, page_size 5,
\* default page, as in the test) is answered with status 200; the response
\* echoes page and page_size, holds at most page_size items, and its total is
\* at least the number of items.
C17_SmallPageAccepted ==
    (api.op = "timeline" /\ api.request.page_size = 5) =>
        /\ api.status = 200
        /\ api.page = api.request.page
        /\ api.page_size = 5
        /\ Len(api.items) <= 5
        /\ api.total >= Len(api.items)

ListServed == api.op = "list_models" /\ api.status = 200

\* The row passes the filters of the request: the provider is the one asked
\* for, the stored tags hold the tag text, and the name or the description
\* holds the search text (letter case ignored).
SatisfiesFilters(row, q) ==
    /\ Truthy(q.provider) => row.provider = TheValue(q.provider)
    /\ Truthy(q.tag) => HasSubstring(Lower(row.tags), Lower(TheValue(q.tag)))
    /\ Truthy(q.search) =>
          \/ HasSubstring(Lower(row.model_name), Lower(TheValue(q.search)))
          \/ HasSubstring(Lower(row.description), Lower(TheValue(q.search)))

\* C18: for every page >= 1, page_size in 1..100 and combination of filters,
\* list_models returns at most page_size items, each passing every given
\* filter; total is the number of stored rows passing the filters; the items
\* are the rows at offset (page - 1) * page_size of those rows ordered by
\* created_at descending.
C18_ListModelsPage ==
    ListServed =>
        LET q == api.request
            passing == {r \in ModelRows : SatisfiesFilters(RowAt(r), q)}
        IN  /\ Len(api.items) <= q.page_size
            /\ \A i \in 1..Len(api.rows) : SatisfiesFilters(RowAt(api.rows[i]), q)
            /\ api.total = Cardinality(passing)
            /\ \E order \in Orderings(passing, TRUE) :
                  api.rows = LimitOffset(order, q.page_size, (q.page - 1) * q.page_size)
            /\ api.items = [i \in 1..Len(api.rows) |-> Model(RowAt(api.rows[i]))]

\* A response that carries models.
ModelsServed == api.op \in {"list_models", "get_model", "timeline"} /\ api.status = 200

\* The row is the one the last Hugging Face run stored for the record.
StoredFrom(row, record) ==
    /\ row.model_id = record.model_id
    /\ row.inserted_at = record.inserted_at
    /\ row.model_card_url = record.model_card_url

\* C19: the tags of a model read through list_models, get_model or timeline
\* are the ordered list of tag strings the Hugging Face save_models stored for
\* it, the empty list and lists with repeated tags included.
C19_TagsRoundTrip ==
    (ModelsServed /\ hf.pc = "done") =>
        \A i \in 1..Len(api.rows) :
            LET row == RowAt(api.rows[i])
            IN  (row.model_id \in BatchIds(hf.batch)
                    /\ StoredFrom(row, LastFor(hf.batch, row.model_id)))
                  => api.items[i].tags = LastFor(hf.batch, row.model_id).tags

\* A timeline response with a model whose one tag holds a quote.
C19_Witness ==
    /\ api.op = "timeline" /\ api.status = 200 /\ hf.pc = "done"
    /\ \E i \in 1..Len(api.rows) :
          /\ api.rows[i][1] \in BatchIds(hf.batch)
          /\ StoredFrom(RowAt(api.rows[i]), LastFor(hf.batch, api.rows[i][1]))
          /\ api.items[i].tags = << <<"a", "\"">> >>

-----------------------------------------------------------------------------
(* The schema manager *)

\* C20: after create_schema has run on any database, empty or initialised, the
\* relations models, providers, model_tags and sync_log and the supporting
\* indexes exist; a further call changes neither the schema nor a stored row.
C20_SchemaCreatedOnce ==
    [][api'.op = "create_schema" =>
          /\ Relations \subseteq schema'
          /\ Indexes \subseteq schema'
          /\ <<models, model_tags, sync_log, providers>>' =
                <<models, model_tags, sync_log, providers>>
          /\ api.op = "create_schema" => schema' = schema]_vars

-----------------------------------------------------------------------------
(* The timeline at the window boundaries *)

\* The row passes the optional filters of a timeline request (letter case of
\* the name ignored).
SatisfiesTimelineFilters(row, q) ==
    /\ Truthy(q.provider) => row.provider = TheValue(q.provider)
    /\ Truthy(q.model_name) =>
          HasSubstring(Lower(row.model_name), Lower(TheValue(q.model_name)))

\* The stored rows a timeline response has to cover.
RowsInsideWindow ==
    {r \in ModelRows : /\ InsideWindow(RowAt(r).created_at)
                       /\ SatisfiesTimelineFilters(RowAt(r), api.request)}

\* C21: every stored row whose created_at instant lies inside the resolved
\* window [start, end], the start date at any time of day included, and that
\* passes the provider / model_name filters is counted in total and is on the
\* page its place in the created_at order selects.
C21_TimelineComplete ==
    TimelineServed =>
        LET q == api.request
        IN  /\ api.total >= Cardinality(RowsInsideWindow)
            /\ \E order \in Orderings(RowsInsideWindow, q.sort # "asc") :
                  LET expected == LimitOffset(order, q.page_size, (q.page - 1) * q.page_size)
                  IN  \A i \in 1..Len(expected) : InSeq(expected[i], api.rows)

-----------------------------------------------------------------------------
(* The tag rows *)

\* A Hugging Face save_models run commits.
HfCommitStep == hf.pc = "saving" /\ hf'.pc = "provider"

\* C22: when a Hugging Face save_models run commits, the model_tags rows of
\* every model_id of its batch are exactly the tags of the last record the
\* batch holds for it (none for a record without tags); the rows of the other
\* model_ids, and all rows at any other step, stay as they are.
C22_TagsOfLatestRecord ==
    [][IF HfCommitStep
       THEN \A m \in ModelIds :
              IF m \in BatchIds(hf.batch)
              THEN {r.tag : r \in model_tags'[m]} =
                     {LastFor(hf.batch, m).tags[i] :
                        i \in 1..Len(LastFor(hf.batch, m).tags)}
              ELSE model_tags'[m] = model_tags[m]
       ELSE model_tags' = model_tags]_vars

\* A committed batch held m/a with the tags a and b and then m/a without tags:
\* no tag row of m/a is stored.
C22_Witness ==
    /\ HfSaved
    /\ Len(hf.batch) = 2
    /\ hf.batch[1].model_id = IdMA /\ hf.batch[1].tags = << <<"a">>, <<"b">> >>
    /\ hf.batch[2].model_id = IdMA /\ hf.batch[2].tags = <<>>
    /\ model_tags[IdMA] = {}

-----------------------------------------------------------------------------
(* The provider keys *)

\* C23: in every state the sync drivers reach, the provider of every models
\* row and the provider_id of every providers row is in lower case, whatever
\* the letter case of the allowlist entries and of the upstream names.
C23_ProviderKeysLowercase ==
    /\ \A m \in ModelIds : \A i \in 1..Len(models[m]) :
          models[m][i].provider = Lower(models[m][i].provider)
    /\ \A p \in ProviderIds : \A i \in 1..Len(providers[p]) :
          providers[p][i].provider_id = Lower(providers[p][i].provider_id)

\* C24: the provider key to_record computes for a raw item is the lowercased
\* text of the name before its first ':' when the name holds a ':'; otherwise
\* the lowercased text of the id before its first '/'; otherwise "unknown"
\* (surrounding blanks are not counted as a difference).
C24_ProviderKeyDerivation ==
    api.op = "to_record" =>
        LET name == TextOf(api.raw.name)
            id == TextOf(api.raw.id)
        IN  api.record.provider =
              IF Contains(name, ":") THEN Lower(Strip(BeforeFirst(name, ":")))
              ELSE IF Contains(id, "/") THEN Lower(Strip(BeforeFirst(id, "/")))
              ELSE Unknown

-----------------------------------------------------------------------------
(* The provider profile *)

ProfileResolved == api.op = "resolve_provider_profile"

\* The place of a request among the requests made, 0 when it was not made.
MadeAt(name) ==
    IF InSeq(name, api.out.calls)
    THEN CHOOSE i \in 1..Len(api.out.calls) : api.out.calls[i] = name
    ELSE 0

\* A JSON endpoint gave a profile: a payload with an avatar, or with a display
\* name that says more than the provider id.
JsonUsable(answer) ==
    /\ answer.kind = "ok"
    /\ \/ NonBlank(answer.avatar)
       \/ NonBlank(answer.name) /\ TheValue(answer.name) # api.provider_id

\* C25: resolve_provider_profile asks the JSON endpoints only after the
\* client calls (organization-info, then user-info) gave no result, and the
\* HTML page only after both JSON endpoints gave no usable result; no 404 and
\* no network failure is raised to the caller; when every source fails the
\* result is (provider_id, None).
C25_ProfileFallbackOrder ==
    ProfileResolved =>
        LET net == api.net
            clients == {"organization_info", "user_info"}
            jsons == {"json_organizations", "json_users"}
        IN  /\ ~api.out.raised
            /\ \A i, j \in 1..Len(api.out.calls) : i # j => api.out.calls[i] # api.out.calls[j]
            /\ \A c \in clients : (MadeAt(c) > 0) = (net[c].kind # "absent" /\
                    (c = "user_info" => net.organization_info.kind # "ok"))
            /\ MadeAt("organization_info") > 0 /\ MadeAt("user_info") > 0
                  => MadeAt("organization_info") < MadeAt("user_info")
            /\ \A e \in jsons : MadeAt(e) > 0 =>
                  \A c \in clients : net[c].kind # "ok" /\ MadeAt(c) < MadeAt(e)
            /\ MadeAt("json_users") > 0 =>
                  MadeAt("json_organizations") > 0
                    /\ MadeAt("json_organizations") < MadeAt("json_users")
                    /\ ~JsonUsable(net.json_organizations)
            /\ MadeAt("html") > 0 =>
                  \A e \in jsons : 0 < MadeAt(e) /\ MadeAt(e) < MadeAt("html")
                                       /\ ~JsonUsable(net[e])
            /\ (\A e \in DOMAIN net : net[e].kind # "ok") =>
                  api.out.result = <<api.provider_id, None>>

\* Both client calls fail (a 404 and a network failure), both JSON endpoints
\* fail, and the HTML page gives the profile: five requests, in order.
C25_Witness ==
    /\ ProfileResolved
    /\ api.net.organization_info.kind = "404"
    /\ api.net.user_info.kind = "network"
    /\ api.out.calls = <<"organization_info", "user_info", "json_organizations",
                         "json_users", "html">>
    /\ api.out.result = <<<<"N">>, Some(<<"u">>)>>

====
